---- MODULE Spec2Model ----
(***************************************************************************)
(* Resume Matcher Pro (src/app.py): the "Analyze Candidates" batch run.    *)
(*                                                                         *)
(* Strings are sequences of one-character strings, so that str.replace,    *)
(* str.strip and json.loads are computed character by character.  The      *)
(* JSON read here is the subset the model's responses are written in:      *)
(* objects, arrays, strings without escapes, non-negative integers, null.  *)
(***************************************************************************)
EXTENDS Integers, Sequences, FiniteSets, TLC

\* ------------------------------------------------------------------ bounds
\* Longest upload list the batch loop is run on.
MaxFiles == 2
\* Most fence markers put into one response body (fence specification).
MaxMarkers == 2

\* ------------------------------------------------------- program constants
\* variant: one attempt too many
MaxAttemptsOffByOne == 3 + 1
\* for _ in range(3)
MaxAttempts == 3
\* time.sleep(1) and time.sleep(0.5), in tenths of a time unit
RetryDelay == 10
ThrottleDelay == 5
\* st.slider("Candidates to find", 1, 20, 3)
MinMatches == 1
MaxMatches == 20

\* ------------------------------------------------------------------ strings
Quote == "\""
\* the grave accent U+0060 (the lexer of TLA+ strings does not take the character itself)
Tick == "GRAVE"
WsChars == {" ", "\n"}
Digits == <<"0", "1", "2", "3", "4", "5", "6", "7", "8", "9">>
DigitSet == {Digits[k] : k \in 1..10}
DigitVal(c) == (CHOOSE k \in 1..10 : Digits[k] = c) - 1

\* the two literal markers of line 161
FenceJson == <<Tick, Tick, Tick, "j", "s", "o", "n">>
Fence == <<Tick, Tick, Tick>>

kScore == <<"s", "c", "o", "r", "e">>
kFile == <<"f", "i", "l", "e">>
kName == <<"n", "a", "m", "e">>

RECURSIVE Flatten(_)
Flatten(ss) == IF ss = <<>> THEN <<>> ELSE Head(ss) \o Flatten(Tail(ss))

StartsWith(s, pat) == Len(s) >= Len(pat) /\ SubSeq(s, 1, Len(pat)) = pat

\* str.replace(pat, ""): every occurrence, leftmost first, not overlapping,
\* one pass (what a removal joins together is not looked at again)
RECURSIVE RemoveAll(_, _)
RemoveAll(s, pat) ==
    IF Len(s) < Len(pat) THEN s
    ELSE IF StartsWith(s, pat)
         THEN RemoveAll(SubSeq(s, Len(pat) + 1, Len(s)), pat)
         ELSE <<Head(s)>> \o RemoveAll(Tail(s), pat)

RECURSIVE LStrip(_)
LStrip(s) == IF s # <<>> /\ Head(s) \in WsChars THEN LStrip(Tail(s)) ELSE s

RECURSIVE RStrip(_)
RStrip(s) ==
    IF s # <<>> /\ s[Len(s)] \in WsChars THEN RStrip(SubSeq(s, 1, Len(s) - 1)) ELSE s

\* str.strip()
StripWs(s) == RStrip(LStrip(s))

\* variant: the shorter marker removed first
clean_json_SwappedReplaces(resp) == StripWs(RemoveAll(RemoveAll(resp, Fence), FenceJson))
\* resp.replace(FenceJson, "").replace(Fence, "").strip()
clean_json(resp) == StripWs(RemoveAll(RemoveAll(resp, FenceJson), Fence))

\* --------------------------------------------------------------- json.loads
Num(n) == [t |-> "num", v |-> n]
Str(s) == [t |-> "str", v |-> s]
Arr(a) == [t |-> "arr", v |-> a]
Obj(d) == [t |-> "obj", v |-> d]
Null == [t |-> "null", v |-> 0]

EmptyDict == [k \in {} |-> Null]
\* d[key] = val
SetItem(d, key, val) == [k \in DOMAIN d \cup {key} |-> IF k = key THEN val ELSE d[k]]

ParseFail == [ok |-> FALSE, val |-> Null, rest |-> <<>>]
ParseOk(val, rest) == [ok |-> TRUE, val |-> val, rest |-> rest]

\* a string body up to the closing quote; a raw control character is an error
RECURSIVE ScanString(_, _)
ScanString(s, acc) ==
    IF s = <<>> \/ Head(s) = "\n" THEN ParseFail
    ELSE IF Head(s) = Quote THEN ParseOk(Str(acc), Tail(s))
    ELSE ScanString(Tail(s), Append(acc, Head(s)))

RECURSIVE ScanDigits(_, _)
ScanDigits(s, n) ==
    IF s # <<>> /\ Head(s) \in DigitSet
    THEN ScanDigits(Tail(s), 10 * n + DigitVal(Head(s)))
    ELSE ParseOk(Num(n), s)

\* an integer; "0" is never followed by more digits of the same number
ScanNumber(s) == IF Head(s) = "0" THEN ParseOk(Num(0), Tail(s)) ELSE ScanDigits(s, 0)

RECURSIVE ParseValue(_), ParseMembers(_, _), ParseElements(_, _)

\* one JSON value at the start of s (s has no leading whitespace)
ParseValue(s) ==
    IF s = <<>> THEN ParseFail
    ELSE IF Head(s) = "{"
         THEN LET r == LStrip(Tail(s))
              IN  IF r # <<>> /\ Head(r) = "}" THEN ParseOk(Obj(EmptyDict), Tail(r))
                  ELSE ParseMembers(r, EmptyDict)
    ELSE IF Head(s) = "["
         THEN LET r == LStrip(Tail(s))
              IN  IF r # <<>> /\ Head(r) = "]" THEN ParseOk(Arr(<<>>), Tail(r))
                  ELSE ParseElements(r, <<>>)
    ELSE IF Head(s) = Quote THEN ScanString(Tail(s), <<>>)
    ELSE IF Head(s) \in DigitSet THEN ScanNumber(s)
    ELSE IF StartsWith(s, <<"n", "u", "l", "l">>) THEN ParseOk(Null, SubSeq(s, 5, Len(s)))
    ELSE ParseFail

\* "key": value pairs up to the closing brace; a repeated key keeps the last
ParseMembers(s, d) ==
    IF s = <<>> \/ Head(s) # Quote THEN ParseFail
    ELSE LET k == ScanString(Tail(s), <<>>)
         IN  IF ~k.ok THEN ParseFail
             ELSE LET c == LStrip(k.rest)
                  IN  IF c = <<>> \/ Head(c) # ":" THEN ParseFail
                      ELSE LET v == ParseValue(LStrip(Tail(c)))
                           IN  IF ~v.ok THEN ParseFail
                               ELSE LET e == LStrip(v.rest)
                                        d2 == SetItem(d, k.val.v, v.val)
                                    IN  IF e = <<>> THEN ParseFail
                                        ELSE IF Head(e) = "}" THEN ParseOk(Obj(d2), Tail(e))
                                        ELSE IF Head(e) = "," THEN ParseMembers(LStrip(Tail(e)), d2)
                                        ELSE ParseFail

ParseElements(s, a) ==
    LET v == ParseValue(s)
    IN  IF ~v.ok THEN ParseFail
        ELSE LET e == LStrip(v.rest)
                 a2 == Append(a, v.val)
             IN  IF e = <<>> THEN ParseFail
                 ELSE IF Head(e) = "]" THEN ParseOk(Arr(a2), Tail(e))
                 ELSE IF Head(e) = "," THEN ParseElements(LStrip(Tail(e)), a2)
                 ELSE ParseFail

\* json.loads(s): one value, whitespace around it, nothing else
json_loads(s) ==
    LET r == ParseValue(LStrip(s))
    IN  IF r.ok /\ LStrip(r.rest) = <<>> THEN [ok |-> TRUE, val |-> r.val]
        ELSE [ok |-> FALSE, val |-> Null]

\* ------------------------------------------------------------------ sorted
\* the characters of the model in code point order (str < str compares these)
CodePoints ==
    <<"\n", " ", Quote, ",", "0", "1", "2", "3", "4", "5", "6", "7", "8", "9", ":", "E",
      "[", "]", Tick, "a", "b", "c", "d", "e", "f", "g", "h", "i", "j", "k", "l", "m",
      "n", "o", "p", "q", "r", "s", "t", "u", "v", "w", "x", "y", "z", "{", "}">>
Ord(c) == CHOOSE k \in 1..Len(CodePoints) : CodePoints[k] = c

Min(a, b) == IF a < b THEN a ELSE b
MinOf(S) == CHOOSE m \in S : \A x \in S : m <= x

\* a < b, a == b, a > b of two values, or "err" where < raises TypeError
RECURSIVE Cmp(_, _)
Cmp(a, b) ==
    IF a.t = "num" /\ b.t = "num"
    THEN IF a.v < b.v THEN "lt" ELSE IF a.v = b.v THEN "eq" ELSE "gt"
    ELSE IF a.t = "str" /\ b.t = "str"
    THEN LET n == Min(Len(a.v), Len(b.v))
             diff == {k \in 1..n : a.v[k] # b.v[k]}
         IN  IF diff = {}
             THEN IF Len(a.v) < Len(b.v) THEN "lt" ELSE IF Len(a.v) = Len(b.v) THEN "eq" ELSE "gt"
             ELSE IF Ord(a.v[MinOf(diff)]) < Ord(b.v[MinOf(diff)]) THEN "lt" ELSE "gt"
    ELSE IF a.t = "arr" /\ b.t = "arr"
    THEN LET n == Min(Len(a.v), Len(b.v))
             diff == {k \in 1..n : a.v[k] # b.v[k]}
         IN  IF diff = {}
             THEN IF Len(a.v) < Len(b.v) THEN "lt" ELSE IF Len(a.v) = Len(b.v) THEN "eq" ELSE "gt"
             ELSE Cmp(a.v[MinOf(diff)], b.v[MinOf(diff)])
    ELSE "err"

\* variant: a missing score below every score
SortKeyDefaultMinusOne(x) == IF kScore \in DOMAIN x THEN x[kScore] ELSE Num(0 - 1)
\* key=lambda x: x.get('score', 0)
SortKey(x) == IF kScore \in DOMAIN x THEN x[kScore] ELSE Num(0)

\* sorted raises when two of the keys do not compare
SortRaises(res) ==
    \E j, k \in 1..Len(res) : j < k /\ Cmp(SortKey(res[j]), SortKey(res[k])) = "err"

\* sorted(..., reverse=True) as the order of the indices of res: descending by
\* key, equal keys in their order in res (the sort is stable under reverse)
RECURSIVE SortedIdx(_, _)
SortedIdx(res, k) ==
    IF k = 0 THEN <<>>
    ELSE LET p == SortedIdx(res, k - 1)
             c == Cardinality({j \in 1..Len(p) : Cmp(SortKey(res[p[j]]), SortKey(res[k])) # "lt"})
         IN  SubSeq(p, 1, c) \o <<k>> \o SubSeq(p, c + 1, Len(p))

\* sorted(results, key=..., reverse=True)[:n]
Ranked(res, n) ==
    LET p == SortedIdx(res, Len(res))
    IN  [k \in 1..Min(n, Len(res)) |-> res[p[k]]]

\* ------------------------------------------------------- the model's answers
Q(s) == <<Quote>> \o s \o <<Quote>>
JsonScore9 == <<"{">> \o Q(kScore) \o <<":", "9", "}">>
JsonScore0 == <<"{">> \o Q(kScore) \o <<":", " ", "0", "}">>
RespScore9 == JsonScore9
RespFenced0 == FenceJson \o <<"\n">> \o JsonScore0 \o <<"\n">> \o Fence
RespFileKey == <<"{">> \o Q(kFile) \o <<":">> \o Q(<<"z">>) \o <<",">> \o Q(kScore) \o <<":", "9", "}">>
RespNoScore == <<"{">> \o Q(kName) \o <<":">> \o Q(<<"x">>) \o <<"}">>
RespStrScore == <<"{">> \o Q(kScore) \o <<":">> \o Q(<<"9">>) \o <<"}">>
RespArray == <<"[", "9", "]">>
RespNumber == <<"9">>
RespString == Q(<<"x">>)
RespNull == <<"n", "u", "l", "l">>
RespMalformed == <<"{">> \o Q(kScore) \o <<":">>
\* f"Error: {e}"
ErrorString == <<"E", "r", "r", "o", "r", ":", " ", "e">>

ObjectResponses == {RespScore9, RespFenced0, RespFileKey, RespNoScore, RespStrScore}
NonObjectResponses == {RespArray, RespNumber, RespString, RespNull, RespMalformed}
\* what model.generate_content does: it returns a text or it raises
ModelOutcomes ==
    {[raises |-> FALSE, text |-> r] : r \in ObjectResponses \cup NonObjectResponses}
        \cup {[raises |-> TRUE, text |-> <<>>]}

get_gemini_response(o) == IF o.raises THEN ErrorString ELSE o.text

\* variant: a value that is no dict is replaced by a dict instead of raising
TryParseAcceptsAnyJson(resp, name) ==
    LET j == json_loads(clean_json(resp))
    IN  IF ~j.ok THEN [ok |-> FALSE, data |-> EmptyDict]
        ELSE IF j.val.t = "obj" THEN [ok |-> TRUE, data |-> SetItem(j.val.v, kFile, Str(name))]
        ELSE [ok |-> TRUE, data |-> SetItem(EmptyDict, kFile, Str(name))]
\* lines 161-163: the dict with its 'file' set, or the exception (json.loads
\* raises on text that is no JSON, data['file'] = ... on a value that is no dict)
TryParse(resp, name) ==
    LET j == json_loads(clean_json(resp))
    IN  IF j.ok /\ j.val.t = "obj"
        THEN [ok |-> TRUE, data |-> SetItem(j.val.v, kFile, Str(name))]
        ELSE [ok |-> FALSE, data |-> EmptyDict]

\* variant: results.insert(0, data)
AppendResultAtFront(res, data) == <<data>> \o res
\* results.append(data)
AppendResult(res, data) == Append(res, data)

\* variant: the job description is not looked at
PrecondFailureNoJdCheck(key, files, j) ==
    IF key = <<>> THEN "error" ELSE IF files = <<>> THEN "warning" ELSE "none"
\* lines 129-133: the message shown instead of the batch, or "none"
PrecondFailure(key, files, j) ==
    IF key = <<>> THEN "error"
    ELSE IF files = <<>> \/ j = <<>> THEN "warning"
    ELSE "none"

\* variant: break leaves the file's iteration, past line 168
AfterBreakSkipsThrottle == "loop"
\* where break leaves the retry loop: at the throttle of line 168
AfterBreak == "throttle"

\* ------------------------------------------------------------------- inputs
\* the uploads: file k of the list is named by the k-th letter, and
\* PdfReader reads it or raises
Names == <<"a", "b", "c", "d", "e">>
UploadLists ==
    UNION {{[k \in 1..n |-> [name |-> <<Names[k]>>, readable |-> r[k]]] : r \in [1..n -> BOOLEAN]}
           : n \in 0..MaxFiles}
Texts == {<<>>, <<"x">>}

Event(e, f, d) == [ev |-> e, f |-> f, d |-> d]

VARIABLES
    pc,              \* where the script is
    api_key, jd, uploaded_files,   \* the widgets' values
    n_matches,       \* the slider's value (any of 1..20), read when the list is cut
    i,               \* 1-based position of file in uploaded_files
    attempt,         \* attempts made for the current file
    resp,            \* the response of the attempt just made
    results, top_candidates,
    notice,          \* st.error / st.warning shown
    error,           \* the call whose exception ended the script run
    src,             \* history: the position of the upload behind each result
    log,             \* history: what happened, in order
    body,            \* fence specification: the response body as the model wrote it
    pieces,          \* the body's characters and the markers put around and into it
    interspersed,    \* a marker was put inside the text, not around it
    markers,         \* markers put so far
    fpc,             \* "edit" while markers are put, "parsed" after lines 161-163
    clean, parsed    \* clean_json and the outcome of lines 161-163 for the text

fenceVars == <<body, pieces, interspersed, markers, fpc, clean, parsed>>
vars == <<pc, api_key, jd, uploaded_files, n_matches, i, attempt, resp, results,
          top_candidates, notice, error, src, log, fenceVars>>

NoFence ==
    /\ body = <<>>
    /\ pieces = <<>>
    /\ interspersed = FALSE
    /\ markers = 0
    /\ fpc = "off"
    /\ clean = <<>>
    /\ parsed = [ok |-> FALSE, data |-> EmptyDict]

Init ==
    /\ pc = "idle"
    /\ api_key \in Texts
    /\ jd \in Texts
    /\ uploaded_files \in UploadLists
    /\ n_matches = 3
    /\ i = 0
    /\ attempt = 0
    /\ resp = <<>>
    /\ results = <<>>
    /\ top_candidates = <<>>
    /\ notice = "none"
    /\ error = "none"
    /\ src = <<>>
    /\ log = <<>>
    /\ NoFence

\* lines 128-149: the button's branch
Analyze ==
    /\ pc = "idle"
    /\ LET f == PrecondFailure(api_key, uploaded_files, jd)
       IN  /\ notice' = f
           /\ pc' = IF f = "none" THEN "loop" ELSE "reported"
           /\ results' = IF f = "none" THEN <<>> ELSE results
    /\ UNCHANGED <<api_key, jd, uploaded_files, n_matches, i, attempt, resp,
                   top_candidates, error, src, log, fenceVars>>

\* line 151: the next file, or the end of the loop (lines 170-171)
ForFile ==
    /\ pc = "loop"
    /\ IF i < Len(uploaded_files)
       THEN i' = i + 1 /\ pc' = "progress"
       ELSE i' = i /\ pc' = "rank"
    /\ resp' = <<>>
    /\ UNCHANGED <<api_key, jd, uploaded_files, n_matches, attempt, results,
                   top_candidates, notice, error, src, log, fenceVars>>

\* lines 152-153
Progress ==
    /\ pc = "progress"
    /\ log' = Append(log, Event("progress", i, 0))
    /\ pc' = "extract"
    /\ UNCHANGED <<api_key, jd, uploaded_files, n_matches, i, attempt, resp, results,
                   top_candidates, notice, error, src, fenceVars>>

\* line 155: input_pdf_text returns the text or raises, and nothing catches it
Extract ==
    /\ pc = "extract"
    /\ IF uploaded_files[i].readable
       THEN /\ log' = Append(log, Event("extract", i, 1))
            /\ pc' = "attempt"
            /\ error' = error
       ELSE /\ log' = Append(log, Event("extract", i, 0))
            /\ pc' = "crashed"
            /\ error' = "input_pdf_text"
    /\ attempt' = 0
    /\ UNCHANGED <<api_key, jd, uploaded_files, n_matches, i, resp, results,
                   top_candidates, notice, src, fenceVars>>

\* lines 159-165: one pass of the try block
Attempt ==
    /\ pc = "attempt"
    /\ \E o \in ModelOutcomes :
         LET r == get_gemini_response(o)
             p == TryParse(r, uploaded_files[i].name)
         IN  /\ resp' = r
             /\ IF p.ok
                THEN /\ results' = AppendResult(results, p.data)
                     /\ src' = Append(src, i)
                     /\ log' = log \o <<Event("attempt", i, 1), Event("append", i, 0)>>
                     /\ pc' = AfterBreak
                ELSE /\ log' = Append(log, Event("attempt", i, 0))
                     /\ pc' = "except"
                     /\ UNCHANGED <<results, src>>
    /\ attempt' = attempt + 1
    /\ UNCHANGED <<api_key, jd, uploaded_files, n_matches, i, top_candidates, notice, error, fenceVars>>

\* lines 166-167, then line 158 again
Except ==
    /\ pc = "except"
    /\ log' = Append(log, Event("sleep", i, RetryDelay))
    /\ pc' = IF attempt < MaxAttempts THEN "attempt" ELSE "throttle"
    /\ resp' = <<>>
    /\ UNCHANGED <<api_key, jd, uploaded_files, n_matches, i, attempt, results,
                   top_candidates, notice, error, src, fenceVars>>

\* line 168
Throttle ==
    /\ pc = "throttle"
    /\ log' = Append(log, Event("sleep", i, ThrottleDelay))
    /\ pc' = "loop"
    /\ resp' = <<>>
    /\ UNCHANGED <<api_key, jd, uploaded_files, n_matches, i, attempt, results,
                   top_candidates, notice, error, src, fenceVars>>

\* line 174, under the slider's value of line 93
Rank ==
    /\ pc = "rank"
    /\ \E n \in MinMatches..MaxMatches : n_matches' = n
    /\ log' = Append(log, Event("rank", Len(uploaded_files) + 1, 0))
    /\ IF SortRaises(results)
       THEN pc' = "crashed" /\ error' = "sorted" /\ top_candidates' = top_candidates
       ELSE pc' = "done" /\ error' = error /\ top_candidates' = Ranked(results, n_matches')
    /\ UNCHANGED <<api_key, jd, uploaded_files, i, attempt, resp, results, notice, src, fenceVars>>

Next == Analyze \/ ForFile \/ Progress \/ Extract \/ Attempt \/ Except \/ Throttle \/ Rank

Spec == Init /\ [][Next]_vars
\* ------------------------------------------------- the fence specification
\* Lines 161-163 on response bodies with the markers of line 161 put around
\* and into them.
BodyJsonWord ==
    <<"{">> \o Q(kName) \o <<":">> \o Q(<<"j", "s", "o", "n">>) \o <<",">> \o Q(kScore) \o <<":", "9", "}">>
BodyTick == <<"{">> \o Q(kName) \o <<":">> \o Q(<<Tick>>) \o <<",">> \o Q(kScore) \o <<":", "7", "}">>
Bodies == {JsonScore9, JsonScore0, RespNoScore, RespStrScore, BodyJsonWord, BodyTick, RespArray}
FenceFile == <<"a">>
Gaps == {<<>>, <<"\n">>}

NonEmpty(ss) == SelectSeq(ss, LAMBDA x : x # <<>>)

InitFence ==
    /\ pc = "idle"
    /\ api_key = <<>>
    /\ jd = <<>>
    /\ uploaded_files = <<>>
    /\ n_matches = 3
    /\ i = 0
    /\ attempt = 0
    /\ resp = <<>>
    /\ results = <<>>
    /\ top_candidates = <<>>
    /\ notice = "none"
    /\ error = "none"
    /\ src = <<>>
    /\ log = <<>>
    /\ body \in Bodies
    /\ pieces = [k \in 1..Len(body) |-> <<body[k]>>]
    /\ interspersed = FALSE
    /\ markers = 0
    /\ fpc = "edit"
    /\ clean = <<>>
    /\ parsed = [ok |-> FALSE, data |-> EmptyDict]

pipeVars == <<pc, api_key, jd, uploaded_files, n_matches, i, attempt, resp, results,
              top_candidates, notice, error, src, log>>

\* the response comes wrapped: a marker before the text and one after it
WrapFence ==
    /\ fpc = "edit"
    /\ markers < MaxMarkers
    /\ \E m \in {FenceJson, Fence}, wo \in Gaps, wi \in Gaps :
         pieces' = NonEmpty(<<wo, m, wi>>) \o pieces \o NonEmpty(<<wi, Fence, wo>>)
    /\ markers' = markers + 1
    /\ UNCHANGED <<body, interspersed, fpc, clean, parsed, pipeVars>>

\* a marker lands between two characters of the text
Intersperse ==
    /\ fpc = "edit"
    /\ markers < MaxMarkers
    /\ \E m \in {FenceJson, Fence}, k \in 1..(Len(pieces) - 1) :
         pieces' = SubSeq(pieces, 1, k) \o <<m>> \o SubSeq(pieces, k + 1, Len(pieces))
    /\ interspersed' = TRUE
    /\ markers' = markers + 1
    /\ UNCHANGED <<body, fpc, clean, parsed, pipeVars>>

\* lines 161-163 on the text
ParseResponse ==
    /\ fpc = "edit"
    /\ clean' = clean_json(Flatten(pieces))
    /\ parsed' = TryParse(Flatten(pieces), FenceFile)
    /\ fpc' = "parsed"
    /\ UNCHANGED <<body, pieces, interspersed, markers, pipeVars>>

NextFence == WrapFence \/ Intersperse \/ ParseResponse

SpecFence == InitFence /\ [][NextFence]_vars

\* =================================================================== claims
AttemptsOf(k) == {j \in DOMAIN log : log[j].ev = "attempt" /\ log[j].f = k}
SucceededAt(k) == {j \in AttemptsOf(k) : log[j].d = 1}
FailedAt(k) == {j \in AttemptsOf(k) : log[j].d = 0}
ThrottlesOf(k) == {j \in DOMAIN log : log[j] = Event("sleep", k, 5)}
VerdictsOf(k) == {j \in DOMAIN src : src[j] = k}
FileNumbers == 1..Len(uploaded_files)

\* C1: every document gets at most 3 attempts and none after its first
\* successful one; two failures and then a success make exactly 3 attempts and
\* exactly one Verdict; a document whose attempts all fail gets exactly 3
\* attempts and no Verdict.
C1_RetryAtMostThree ==
    \A k \in FileNumbers :
        LET att == AttemptsOf(k)
            won == {j \in att : log[j].d = 1}
            made == Cardinality(att)
            verdicts == Cardinality(VerdictsOf(k))
        IN  /\ made <= 3
            /\ \A j \in won : \A a \in att : a <= j
            /\ verdicts = Cardinality(won)
            /\ (Cardinality(att \ won) = 2 /\ won # {}) => (made = 3 /\ verdicts = 1)
            /\ (ThrottlesOf(k) # {} /\ won = {}) => (made = 3 /\ verdicts = 0)

\* a document failed twice and then succeeded, and the loop has moved on
C1_Witness ==
    \E k \in FileNumbers :
        /\ Cardinality(FailedAt(k)) = 2
        /\ SucceededAt(k) # {}
        /\ ThrottlesOf(k) # {}
        /\ Cardinality(VerdictsOf(k)) = 1

\* C2: one bad document never aborts the batch: when the run has stopped,
\* every file of the upload list was started and the ranking step was reached.
C2_BadDocumentNeverAborts ==
    (pc \in {"done", "crashed"}) =>
        /\ \A k \in FileNumbers : \E j \in DOMAIN log : log[j] = Event("progress", k, 0)
        /\ \E j \in DOMAIN log : log[j].ev = "rank"

\* C3: only an attempt whose response parses, once its fences are stripped, as
\* a JSON object appends a Verdict; the error string of get_gemini_response,
\* malformed JSON and JSON that is no object append nothing and lead to the
\* retry delay, after which the next attempt follows while attempts remain.
C3_OnlyJsonObjectsAppend ==
    [][/\ (pc = "attempt") =>
             /\ (resp' \in NonObjectResponses \cup {ErrorString})
                    => (results' = results /\ pc' = "except")
             /\ (results' # results)
                    => (resp' \in ObjectResponses /\ Len(results') = Len(results) + 1)
       /\ (pc = "except" /\ attempt < 3) => (pc' = "attempt" /\ results' = results)
      ]_vars

\* a JSON array came back on the first attempt and nothing was appended
C3_Witness ==
    /\ pc = "except"
    /\ resp = RespArray
    /\ attempt = 1
    /\ results = <<>>

\* C4: at every point the results are an order-preserving subsequence of the
\* upload list: at most one Verdict per upload, each naming in 'file' the
\* upload behind it, in upload order; and when the loop is over their number
\* is the number of uploads less the dropped (retries exhausted) ones.
C4_ResultsFollowUploads ==
    /\ Len(src) = Len(results)
    /\ \A j \in DOMAIN results :
           /\ src[j] \in 1..i
           /\ kFile \in DOMAIN results[j]
           /\ results[j][kFile] = Str(uploaded_files[src[j]].name)
    /\ \A j, k \in DOMAIN results : j < k => src[j] < src[k]
    /\ (pc \in {"rank", "done"}) =>
           Len(results) = Len(uploaded_files)
               - Cardinality({k \in FileNumbers : ThrottlesOf(k) # {} /\ SucceededAt(k) = {}})

\* the first of two uploads was dropped and the second produced the only Verdict
C4_Witness ==
    /\ pc = "done"
    /\ Len(uploaded_files) = 2
    /\ uploaded_files[1].name # uploaded_files[2].name
    /\ src = <<2>>
    /\ Len(results) = 1

\* C5: whenever the ranking step is reached, top_candidates holds
\* min(N, len(results)) Verdicts, in non-increasing order of score, taken from
\* the results without repetition, equal scores in their collection order.
C5_RankerOutput ==
    (\E j \in DOMAIN log : log[j].ev = "rank") =>
        /\ pc = "done"
        /\ n_matches \in 1..20
        /\ Len(top_candidates) = Min(n_matches, Len(results))
        /\ \A j, k \in DOMAIN top_candidates :
               j < k => Cmp(SortKey(top_candidates[j]), SortKey(top_candidates[k])) \in {"gt", "eq"}
        /\ \E p \in [DOMAIN top_candidates -> DOMAIN results] :
               /\ \A j \in DOMAIN top_candidates : top_candidates[j] = results[p[j]]
               /\ \A j, k \in DOMAIN top_candidates :
                      /\ j # k => p[j] # p[k]
                      /\ (j < k /\ Cmp(SortKey(top_candidates[j]), SortKey(top_candidates[k])) = "eq")
                             => p[j] < p[k]

\* the results with every missing score written out as 0
ZeroFilled(res) ==
    [k \in DOMAIN res |->
        IF kScore \in DOMAIN res[k] THEN res[k] ELSE SetItem(res[k], kScore, Num(0))]

\* C6: a Verdict without a score is ranked as if its score were 0: writing
\* the 0 into it changes neither the ranked order nor whether sorting fails,
\* and the list the code produced is the one the written-out results give.
C6_MissingScoreRanksAsZero ==
    LET z == ZeroFilled(results)
    IN  /\ SortedIdx(results, Len(results)) = SortedIdx(z, Len(z))
        /\ SortRaises(results) = SortRaises(z)
        /\ (pc = "done") => ZeroFilled(top_candidates) = Ranked(z, n_matches)
        /\ (pc = "crashed" /\ error = "sorted") => SortRaises(z)

\* ranked: a Verdict without a score ahead of a later one whose score is 0
C6_Witness ==
    /\ pc = "done"
    /\ Len(results) = 2
    /\ kScore \notin DOMAIN results[1]
    /\ kScore \in DOMAIN results[2]
    /\ results[2][kScore] = Num(0)
    /\ top_candidates = results

\* C7: a response that is a JSON object but not of the Verdict shape (no
\* score, or a score that is no integer) appends no Verdict: every collected
\* Verdict has an integer score.
C7_SchemaDeviationIsParseFailure ==
    \A j \in DOMAIN results :
        kScore \in DOMAIN results[j] /\ results[j][kScore].t = "num"

\* C8: without an API key, a job description or an upload the failure is
\* reported and nothing of the batch happens; with all three the batch starts.
C8_NoBatchWithoutPreconditions ==
    /\ (api_key = <<>> \/ jd = <<>> \/ uploaded_files = <<>>) =>
           /\ pc \in {"idle", "reported"}
           /\ (pc = "reported") => (notice \in {"error", "warning"})
           /\ log = <<>> /\ results = <<>> /\ top_candidates = <<>>
           /\ i = 0 /\ attempt = 0 /\ resp = <<>>
    /\ (api_key # <<>> /\ jd # <<>> /\ uploaded_files # <<>>) =>
           (pc # "reported" /\ notice = "none")

\* Analyze was pressed with a key and uploads but no job description
C8_Witness ==
    /\ pc = "reported"
    /\ notice = "warning"
    /\ api_key # <<>>
    /\ uploaded_files # <<>>
    /\ jd = <<>>

\* what may directly follow an event of the run
LogStepOK(a, b) ==
    IF a.ev = "progress" THEN b = Event("extract", a.f, 1) \/ b = Event("extract", a.f, 0)
    ELSE IF a.ev = "extract" THEN a.d = 1 /\ b.ev = "attempt" /\ b.f = a.f
    ELSE IF a.ev = "attempt"
         THEN IF a.d = 1 THEN b = Event("append", a.f, 0) ELSE b = Event("sleep", a.f, 10)
    ELSE IF a.ev = "append" THEN b = Event("sleep", a.f, 5)
    ELSE IF a = Event("sleep", a.f, 10)
         THEN b.f = a.f /\ (b.ev = "attempt" \/ b = Event("sleep", a.f, 5))
    ELSE IF a = Event("sleep", a.f, 5)
         THEN \/ b = Event("progress", a.f + 1, 0)
              \/ (b.ev = "rank" /\ a.f = Len(uploaded_files))
    ELSE FALSE

\* C9: files are processed one after the other in upload order (progress,
\* extraction, attempts with their retry delays, the append), and every file
\* that was left, with a Verdict or dropped, is followed by exactly one pause
\* of 0.5 before the next file or the ranking.
C9_SequentialWithThrottle ==
    /\ (log # <<>>) => (log[1] = Event("progress", 1, 0))
    /\ \A j \in 1..(Len(log) - 1) : LogStepOK(log[j], log[j + 1])
    /\ \A j \in 1..(Len(log) - 1) : log[j].f <= log[j + 1].f
    /\ \A k \in FileNumbers :
           (\E j \in DOMAIN log : log[j].f > k) => Cardinality(ThrottlesOf(k)) = 1

\* two files done, one with a Verdict and one dropped, and the list ranked
C9_Witness ==
    /\ pc = "done"
    /\ Len(uploaded_files) = 2
    /\ Len(results) = 1
    /\ Cardinality(ThrottlesOf(1)) = 1
    /\ Cardinality(ThrottlesOf(2)) = 1

ContainsJsonWord(s) ==
    \E k \in 1..Len(s) : StartsWith(SubSeq(s, k, Len(s)), <<"j", "s", "o", "n">>)

\* C10 as stated: a body that parses to a Verdict parses to the same Verdict
\* with the markers around it or anywhere inside it, and stripping twice is
\* stripping once.
C10_FenceInsensitive ==
    (fpc = "parsed") =>
        /\ TryParse(body, FenceFile).ok => parsed = TryParse(body, FenceFile)
        /\ clean_json(clean) = clean

\* C10 amended: the same holds for markers around the body, and for markers
\* inside it when the body does not itself contain the text json.
C10_FenceWrappingInsensitive ==
    (fpc = "parsed") =>
        /\ (TryParse(body, FenceFile).ok /\ (interspersed => ~ContainsJsonWord(body)))
               => parsed = TryParse(body, FenceFile)
        /\ clean_json(clean) = clean

\* a wrapped body was parsed, and to a Verdict
C10_Witness ==
    /\ fpc = "parsed"
    /\ markers >= 1
    /\ ~interspersed
    /\ parsed.ok
    /\ Flatten(pieces) # body
    /\ parsed = TryParse(body, FenceFile)
====
